---- MODULE Spec2Model ----
(***************************************************************************)
(* A model of the Wabbit front end and definitional interpreter:           *)
(*   wabbit/program.py   the Program container                             *)
(*   wabbit/model.py     the node classes and to_source                    *)
(*   wabbit/interp.py    interpret_program / interpret_node                *)
(*   wabbit/tokenize.py  tokenize                                          *)
(*   wabbit/parse.py     parse_program / parse_source                      *)
(* Python objects are records tagged with their class; a text (a Python    *)
(* str) is a sequence of one-character strings.                            *)
(***************************************************************************)
EXTENDS Integers, Sequences, FiniteSets, TLC

VARIABLES
    source,       \* Program.source
    model,        \* Program.model
    have_errors,  \* Program.have_errors
    out,          \* the text written to standard output so far
    last,         \* the call made most recently ("" before any call)
    ret,          \* the outcome of that call: a value returned or an exception
    calls,        \* the number of calls made on the program's model
    lineno,       \* tokenize: local lineno
    n,            \* tokenize: local n
    tokens,       \* tokenize: the tokens yielded so far
    tpc,          \* tokenize: position of the generator
    printed,      \* the pair (valuetype, value) the PrintStatement last run wrote
    written,      \* the constructor calls written for program.model (None: none yet)
    reported      \* the number of calls of Program.error_message so far

vars == <<source, model, have_errors, out, last, ret, calls, lineno, n, tokens, tpc, printed,
          written, reported>>

progvars == <<source, model, have_errors>>
lexvars == <<lineno, n, tokens, tpc>>

(***************************************************************************)
(* Bounds of the model.                                                    *)
(***************************************************************************)
MaxSrcLen == 3
MaxCalls == 2
MaxReports == 2

(***************************************************************************)
(* Python values.                                                          *)
(***************************************************************************)
None == [class |-> "NoneType"]

str(chars) == [class |-> "str", chars |-> chars]

int(i) == [class |-> "int", n |-> i]

bool(b) == [class |-> "bool", b |-> b]

tuple(a, b) == [class |-> "tuple", items |-> <<a, b>>]

list(items) == [class |-> "list", items |-> items]

\* The outcome of a call: a returned value or a raised exception, with the
\* text the call wrote to standard output before it ended.
Return(v, o) == [exc |-> "none", msg |-> "", val |-> v, out |-> o]

Raise(e, m, o) == [exc |-> e, msg |-> m, val |-> None, out |-> o]

NoCall == Return(None, <<>>)

DigitChar == <<"0", "1", "2", "3", "4", "5", "6", "7", "8", "9">>

RECURSIVE NatChars(_)
NatChars(i) ==
    IF i < 10 THEN <<DigitChar[i + 1]>>
    ELSE NatChars(i \div 10) \o <<DigitChar[(i % 10) + 1]>>

\* str(i) of a Python int
IntChars(i) == IF i < 0 THEN <<"-">> \o NatChars(-i) ELSE NatChars(i)

\* str(v): the text print and the f-strings write for a value
PyStr(v) ==
    CASE v.class = "str" -> v.chars
      [] v.class = "int" -> IntChars(v.n)
      [] v.class = "bool" ->
            IF v.b THEN <<"T", "r", "u", "e">> ELSE <<"F", "a", "l", "s", "e">>
      [] OTHER -> <<"N", "o", "n", "e">>

\* The truth value Python gives a value in `x if value else y`
Truthy(v) ==
    CASE v.class = "str" -> v.chars # <<>>
      [] v.class = "int" -> v.n # 0
      [] v.class = "bool" -> v.b
      [] OTHER -> FALSE

\* a == b for a Python object a and a str literal: an object of a class with
\* no __eq__ (Op) is equal only to itself
PyEqStr(a, chars) == a.class = "str" /\ a.chars = chars

\* a + b
PyAdd(a, b) ==
    CASE a.class = "str" /\ b.class = "str" -> Return(str(a.chars \o b.chars), <<>>)
      [] a.class = "int" /\ b.class = "int" -> Return(int(a.n + b.n), <<>>)
      [] OTHER -> Raise("TypeError", "unsupported operand type(s) for +", <<>>)

\* a - b
PySub(a, b) ==
    CASE a.class = "int" /\ b.class = "int" -> Return(int(a.n - b.n), <<>>)
      [] OTHER -> Raise("TypeError", "unsupported operand type(s) for -", <<>>)

(***************************************************************************)
(* wabbit/model.py: the node classes.  A constructor call is an expression *)
(* [call, args]; Eval runs it as Python does, arguments first, left to     *)
(* right, and the first exception raised ends it.                          *)
(***************************************************************************)
Call(cls, args) == [call |-> cls, args |-> args]

\* The number of arguments each class's constructor takes. Float defines
\* `__init` (not __init__), so Float takes none.
Arity(cls) ==
    CASE cls = "Integer" -> 1
      [] cls = "Float" -> 0
      [] cls = "Bool" -> 1
      [] cls = "Op" -> 1
      [] cls = "BinOp" -> 3
      [] cls = "UnaryOp" -> 2
      [] cls = "PrintStatement" -> 1

Integer(value) ==
    IF value.class = "str"
    THEN Return([class |-> "Integer", value |-> value], <<>>)
    ELSE Raise("AssertionError", "", <<>>)

Float == Return([class |-> "Float"], <<>>)

Bool(value) ==
    IF value.class = "str" /\ value.chars \in {<<"t", "r", "u", "e">>, <<"f", "a", "l", "s", "e">>}
    THEN Return([class |-> "Bool", value |-> value], <<>>)
    ELSE Raise("AssertionError", "", <<>>)

Op(symbol) == Return([class |-> "Op", symbol |-> symbol], <<>>)

BinOp(op, left, right) ==
    Return([class |-> "BinOp", op |-> op, left |-> left, right |-> right], <<>>)

UnaryOp(op, operand) ==
    Return([class |-> "UnaryOp", op |-> op, operand |-> operand], <<>>)

PrintStatement(value) == Return([class |-> "PrintStatement", value |-> value], <<>>)

\* cls(*argv) for evaluated arguments
New(cls, argv) ==
    IF Len(argv) # Arity(cls)
    THEN Raise("TypeError", "takes no arguments", <<>>)
    ELSE CASE cls = "Integer" -> Integer(argv[1])
           [] cls = "Float" -> Float
           [] cls = "Bool" -> Bool(argv[1])
           [] cls = "Op" -> Op(argv[1])
           [] cls = "BinOp" -> BinOp(argv[1], argv[2], argv[3])
           [] cls = "UnaryOp" -> UnaryOp(argv[1], argv[2])
           [] cls = "PrintStatement" -> PrintStatement(argv[1])

RECURSIVE Eval(_)
Eval(e) ==
    IF "call" \notin DOMAIN e
    THEN Return(e, <<>>)
    ELSE LET rs == [i \in 1..Len(e.args) |-> Eval(e.args[i])]
             bad == {i \in 1..Len(e.args) : rs[i].exc # "none"}
             argv == [i \in 1..Len(e.args) |-> rs[i].val]
         IN  IF bad # {}
             THEN rs[CHOOSE i \in bad : \A j \in bad : i <= j]
             ELSE IF e.call = "list" THEN Return(list(argv), <<>>)
             ELSE New(e.call, argv)

(***************************************************************************)
(* wabbit/interp.py: interpret_node.  The context's env is created empty   *)
(* by interpret_program and no branch reads or writes it.                  *)
(***************************************************************************)
RECURSIVE HasRepr(_)
\* Whether repr(v) returns: Float.__repr__ reads self.value, which no Float has,
\* and the __repr__ of a node or a list formats every part of it
HasRepr(v) ==
    CASE v.class = "Float" -> "value" \in DOMAIN v
      [] v.class = "BinOp" -> HasRepr(v.op) /\ HasRepr(v.left) /\ HasRepr(v.right)
      [] v.class = "UnaryOp" -> HasRepr(v.op) /\ HasRepr(v.operand)
      [] v.class = "PrintStatement" -> HasRepr(v.value)
      [] v.class = "Op" -> HasRepr(v.symbol)
      [] v.class = "list" -> \A i \in 1..Len(v.items) : HasRepr(v.items[i])
      [] OTHER -> TRUE

\* raise RuntimeError(f"<msg> {v}"): formatting v comes first
RaiseAbout(m, v) ==
    IF HasRepr(v)
    THEN Raise("RuntimeError", m, <<>>)
    ELSE Raise("AttributeError", "'Float' object has no attribute 'value'", <<>>)

\* `a, b = r`: a 2-tuple unpacks; None (what a PrintStatement returns) does not
Unpacks(r) == r.class = "tuple"

\* PrintOutput with the bool case written like the char case (end='')
PrintOutput_bool_unterminated(valuetype, value) ==
    IF valuetype = str(<<"c", "h", "a", "r">>)
    THEN PyStr(value)
    ELSE IF valuetype = str(<<"b", "o", "o", "l">>)
    THEN (IF Truthy(value) THEN <<"t", "r", "u", "e">> ELSE <<"f", "a", "l", "s", "e">>)
    ELSE PyStr(value) \o <<"\n">>

\* What the PrintStatement branch writes for an operand that evaluated to
\* the pair (valuetype, value)
PrintOutput(valuetype, value) ==
    IF valuetype = str(<<"c", "h", "a", "r">>)
    THEN PyStr(value)
    ELSE IF valuetype = str(<<"b", "o", "o", "l">>)
    THEN (IF Truthy(value) THEN <<"t", "r", "u", "e">> ELSE <<"f", "a", "l", "s", "e">>) \o <<"\n">>
    ELSE PyStr(value) \o <<"\n">>

\* The arithmetic of the BinOp branch on two operands of the same type
BinOpApply(op, left_type, left_value, right_value) ==
    IF left_type \in {str(<<"i", "n", "t">>), str(<<"f", "l", "o", "a", "t">>)}
          /\ PyEqStr(op, <<"+">>)
    THEN LET r == PyAdd(left_value, right_value)
         IN  IF r.exc = "none" THEN Return(tuple(left_type, r.val), <<>>) ELSE r
    ELSE IF left_type \in {str(<<"i", "n", "t">>), str(<<"f", "l", "o", "a", "t">>)}
          /\ PyEqStr(op, <<"-">>)
    THEN LET r == PySub(left_value, right_value)
         IN  IF r.exc = "none" THEN Return(tuple(left_type, r.val), <<>>) ELSE r
    ELSE RaiseAbout("Unsupported operation", op)

RECURSIVE interpret_node(_)
interpret_node(node) ==
    CASE node.class = "Integer" ->
            Return(tuple(str(<<"i", "n", "t">>), node.value), <<>>)
      [] node.class = "Float" ->
            IF "value" \in DOMAIN node
            THEN Return(tuple(str(<<"f", "l", "o", "a", "t">>), node.value), <<>>)
            ELSE Raise("AttributeError", "'Float' object has no attribute 'value'", <<>>)
      [] node.class = "BinOp" ->
            LET l == interpret_node(node.left)
            IN  IF l.exc # "none" THEN l
                ELSE IF ~Unpacks(l.val)
                THEN Raise("TypeError", "cannot unpack non-iterable NoneType object", l.out)
                ELSE LET r == interpret_node(node.right)
                         o == l.out \o r.out
                     IN  IF r.exc # "none" THEN [r EXCEPT !.out = o]
                         ELSE IF ~Unpacks(r.val)
                         THEN Raise("TypeError", "cannot unpack non-iterable NoneType object", o)
                         ELSE IF l.val.items[1] # r.val.items[1]
                         THEN Raise("RuntimeError", "Type error in binary operator", o)
                         ELSE [BinOpApply(node.op, l.val.items[1], l.val.items[2],
                                          r.val.items[2]) EXCEPT !.out = o]
      [] node.class = "PrintStatement" ->
            LET v == interpret_node(node.value)
            IN  IF v.exc # "none" THEN v
                ELSE IF ~Unpacks(v.val)
                THEN Raise("TypeError", "cannot unpack non-iterable NoneType object", v.out)
                ELSE Return(None, v.out \o PrintOutput(v.val.items[1], v.val.items[2]))
      [] OTHER -> RaiseAbout("Can't interpret", node)

(***************************************************************************)
(* wabbit/model.py: node_as_source.                                        *)
(***************************************************************************)
RECURSIVE node_as_source(_)

\* The parts of an f-string or a join, converted left to right; the first
\* exception ends the conversion.
RECURSIVE SourceOfAll(_)
SourceOfAll(nodes) ==
    IF nodes = <<>> THEN Return(str(<<>>), <<>>)
    ELSE LET h == node_as_source(Head(nodes))
         IN  IF h.exc # "none" THEN h
             ELSE LET t == SourceOfAll(Tail(nodes))
                  IN  IF t.exc # "none" THEN t
                      ELSE Return(str(h.val.chars \o t.val.chars), <<>>)

node_as_source(node) ==
    CASE node.class = "Integer" -> Return(str(PyStr(node.value)), <<>>)
      [] node.class = "Op" -> Return(str(PyStr(node.symbol)), <<>>)
      [] node.class = "BinOp" ->
            LET l == node_as_source(node.left)
                o == node_as_source(node.op)
                r == node_as_source(node.right)
            IN  IF l.exc # "none" THEN l
                ELSE IF o.exc # "none" THEN o
                ELSE IF r.exc # "none" THEN r
                ELSE Return(str(l.val.chars \o <<" ">> \o o.val.chars \o <<" ">> \o r.val.chars), <<>>)
      [] node.class = "UnaryOp" ->
            LET o == node_as_source(node.op)
                x == node_as_source(node.operand)
            IN  IF o.exc # "none" THEN o
                ELSE IF x.exc # "none" THEN x
                ELSE Return(str(o.val.chars \o x.val.chars), <<>>)
      [] node.class = "PrintStatement" -> node_as_source(node.value)
      [] node.class = "list" -> SourceOfAll(node.items)
      [] OTHER -> RaiseAbout("Can't convert to source", node)

(***************************************************************************)
(* wabbit/tokenize.py and wabbit/parse.py.                                 *)
(***************************************************************************)
Token(type, value, ln, index) ==
    [type |-> type, value |-> value, lineno |-> ln, index |-> index]

\* repr(c) of a one-character str
Repr(c) == IF c = "'" THEN <<"\"", c, "\"">> ELSE <<"'", c, "'">>

\* f'{lineno}: Illegal character {text[n]!r}' and print's newline
IllegalLine(ln, c) ==
    IntChars(ln)
        \o <<":", " ", "I", "l", "l", "e", "g", "a", "l", " ",
             "c", "h", "a", "r", "a", "c", "t", "e", "r", " ">>
        \o Repr(c) \o <<"\n">>

\* parse_source calls statement(), a name the module does not define
parse_source == Raise("NameError", "name 'statement' is not defined", <<>>)

(***************************************************************************)
(* The inputs: source texts, and the constructor calls test_models.py      *)
(* writes to build a model by hand.                                        *)
(***************************************************************************)
Alphabet == {"2", ";", "$"}

Sources == UNION {[1..k -> Alphabet] : k \in 0..MaxSrcLen}

I(chars) == Call("Integer", <<str(chars)>>)

O(chars) == Call("Op", <<str(chars)>>)

B(op, left, right) == Call("BinOp", <<op, left, right>>)

U(op, x) == Call("UnaryOp", <<op, x>>)

P(value) == Call("PrintStatement", <<value>>)

true == Call("Bool", <<str(<<"t", "r", "u", "e">>)>>)

false == Call("Bool", <<str(<<"f", "a", "l", "s", "e">>)>>)

LeafExprs ==
    {I(<<"2">>), I(<<"3">>), Call("Float", <<str(<<"3", ".", "0">>)>>), Call("Float", <<>>),
     true, false}

OpSymbols == {<<"+">>, <<"-">>, <<"*">>, <<"/">>, <<"|", "|">>, <<"&", "&">>}

\* An operator is given as an Op node (test_models.py) or as the bare str
\* interpret_node compares node.op with
OpExprs == {O(s) : s \in OpSymbols} \cup {str(s) : s \in OpSymbols}

BinOpExprs == {B(o, l, r) : o \in OpExprs, l \in LeafExprs, r \in LeafExprs}

UnaryOpExprs == {U(O(s), x) : s \in {<<"-">>, <<"!">>}, x \in LeafExprs}

\* test_models.py: expr, 2 + 3 * 4
expr == B(O(<<"+">>), I(<<"2">>), B(O(<<"*">>), I(<<"3">>), I(<<"4">>)))

\* test_models.py: program1.model
program1 == Call("list", <<P(I(<<"2">>)), P(B(O(<<"+">>), I(<<"2">>), I(<<"3">>)))>>)

\* test_models.py program1: (2 + 3) * -4 and 2 + 3 * -4
paren_expr == B(O(<<"*">>), B(O(<<"+">>), I(<<"2">>), I(<<"3">>)), U(O(<<"-">>), I(<<"4">>)))

plain_expr == B(O(<<"+">>), I(<<"2">>), B(O(<<"*">>), I(<<"3">>), U(O(<<"-">>), I(<<"4">>))))

\* test_models.py program3: true || (1/0 == 0), and its dual false && (1/0 == 0)
div_zero == B(O(<<"=", "=">>), B(O(<<"/">>), I(<<"1">>), I(<<"0">>)), I(<<"0">>))

lor_expr == B(O(<<"|", "|">>), true, div_zero)

land_expr == B(O(<<"&", "&">>), false, div_zero)

\* test_models.py: program6 (while / if / break / continue), whose model the
\* file gives as None: model.py has no class for any of its statements
program6 == None

TestExprs ==
    {expr, program1, paren_expr, plain_expr, lor_expr, land_expr, program6,
     Call("list", <<>>), B(str(<<"+">>), P(I(<<"2">>)), I(<<"3">>))}

ExprExprs == LeafExprs \cup BinOpExprs \cup UnaryOpExprs \cup TestExprs

ModelExprs == ExprExprs \cup {P(e) : e \in ExprExprs}

(***************************************************************************)
(* The state after Program(source): program.py, Program.__init__.          *)
(***************************************************************************)
NewProgram(text) ==
    /\ source = text
    /\ model = None
    /\ have_errors = FALSE
    /\ out = <<>>
    /\ last = ""
    /\ ret = NoCall
    /\ calls = 0
    /\ lineno = 0
    /\ n = 0
    /\ tokens = <<>>
    /\ tpc = "idle"
    /\ printed = None
    /\ written = None
    /\ reported = 0

Init == NewProgram(<<>>)

(***************************************************************************)
(* test_models.py: program.model = <constructor calls>.                    *)
(***************************************************************************)
Build(e) ==
    /\ last = ""
    /\ LET r == Eval(e)
       IN  /\ model' = IF r.exc = "none" THEN r.val ELSE model
           /\ ret' = IF r.exc = "none" THEN NoCall ELSE r
    /\ last' = "build"
    /\ written' = e
    /\ UNCHANGED <<source, have_errors, out, calls, lexvars, printed, reported>>

\* An interpreter that caches what a node evaluated to in the node's value
\* field
interpret_program_caching ==
    /\ last # ""
    /\ calls < MaxCalls
    /\ LET r == interpret_node(model)
       IN  /\ ret' = r
           /\ out' = out \o r.out
           /\ model' = IF r.exc = "none" /\ r.val # None /\ "value" \in DOMAIN model
                       THEN [model EXCEPT !.value = r.val]
                       ELSE model
    /\ last' = "interpret_program"
    /\ calls' = calls + 1
    /\ UNCHANGED <<source, have_errors, lexvars, printed, written, reported>>

\* interpret_program(program)
interpret_program ==
    /\ last # ""
    /\ calls < MaxCalls
    /\ LET r == interpret_node(model)
       IN  /\ ret' = r
           /\ out' = out \o r.out
    /\ last' = "interpret_program"
    /\ calls' = calls + 1
    /\ UNCHANGED <<progvars, lexvars, printed, written, reported>>

\* to_source(program)
to_source ==
    /\ last # ""
    /\ calls < MaxCalls
    /\ ret' = node_as_source(model)
    /\ last' = "to_source"
    /\ calls' = calls + 1
    /\ UNCHANGED <<progvars, out, lexvars, printed, written, reported>>

\* The round trip: parse_program(Program(to_source(program))), which returns
\* what parse_source returns for the text
round_trip ==
    /\ last # ""
    /\ calls < MaxCalls
    /\ LET t == node_as_source(model)
       IN  ret' = IF t.exc # "none" THEN t ELSE parse_source
    /\ last' = "round_trip"
    /\ calls' = calls + 1
    /\ UNCHANGED <<progvars, out, lexvars, printed, written, reported>>

Next ==
    \/ \E e \in ModelExprs : Build(e)
    \/ interpret_program
    \/ to_source
    \/ round_trip

Spec == Init /\ [][Next]_vars

(***************************************************************************)
(* The front end on a source text: tokenize, a generator that runs as its  *)
(* consumer asks for tokens, and parse_program.                            *)
(***************************************************************************)
\* lineno = 1; n = 0; text = program.source
tokenize_begin ==
    /\ tpc = "idle"
    /\ tpc' = "loop"
    /\ lineno' = 1
    /\ n' = 0
    /\ UNCHANGED <<progvars, out, last, ret, calls, tokens, printed, written, reported>>

\* tokenize_loop with the EOF yield indented into the loop body
tokenize_loop_yielding ==
    /\ tpc = "loop"
    /\ n < Len(source)
    /\ out' = out \o IllegalLine(lineno, source[n + 1])
    /\ n' = n + 1
    /\ tokens' = Append(tokens, Token("EOF", <<"E", "O", "F">>, lineno, n + 1))
    /\ UNCHANGED <<progvars, last, ret, calls, lineno, tpc, printed, written, reported>>

\* One pass of `while n < len(text)`: nothing is matched and nothing yielded;
\* the character is reported and skipped
tokenize_loop ==
    /\ tpc = "loop"
    /\ n < Len(source)
    /\ out' = out \o IllegalLine(lineno, source[n + 1])
    /\ n' = n + 1
    /\ UNCHANGED <<progvars, last, ret, calls, lineno, tokens, tpc, printed, written, reported>>

\* yield Token('EOF', 'EOF', lineno, n), and the generator is exhausted
tokenize_eof ==
    /\ tpc = "loop"
    /\ ~(n < Len(source))
    /\ tokens' = Append(tokens, Token("EOF", <<"E", "O", "F">>, lineno, n))
    /\ tpc' = "done"
    /\ UNCHANGED <<progvars, out, last, ret, calls, lineno, n, printed, written, reported>>

\* parse_program(program): tokens = tokenize(program) only creates a generator,
\* then program.model = parse_source(), and the model is returned
parse_program ==
    /\ calls < MaxCalls
    /\ LET r == parse_source
       IN  /\ model' = IF r.exc = "none" THEN r.val ELSE model
           /\ ret' = r
    /\ last' = "parse_program"
    /\ calls' = calls + 1
    /\ UNCHANGED <<source, have_errors, out, lexvars, printed, written, reported>>

\* parse_break_statement(): expect('BREAK'); expect('SEMI'); return
\* BreakStatement().  No expect is defined, so the first call raises.
parse_break_statement == Raise("NameError", "name 'expect' is not defined", <<>>)

\* parse_statement(): return parse_break_statement()
parse_statement ==
    /\ calls < MaxCalls
    /\ ret' = parse_break_statement
    /\ last' = "parse_statement"
    /\ calls' = calls + 1
    /\ UNCHANGED <<progvars, out, lexvars, printed, written, reported>>

LexInit == \E text \in Sources : NewProgram(text)

LexNext ==
    \/ tokenize_begin
    \/ tokenize_loop
    \/ tokenize_eof
    \/ parse_program
    \/ parse_statement

\* The consumer of the generator (main's for loop) asks for tokens until the
\* generator is exhausted.
LexSpec == LexInit /\ [][LexNext]_vars /\ WF_vars(tokenize_loop \/ tokenize_eof)

(***************************************************************************)
(* program.py: Program.error_message, called on a program at any time      *)
(* between the steps of the lexer and the calls of the other stages.       *)
(***************************************************************************)
Messages == {<<"e">>, <<"w", "2">>}

\* An error_message whose assignment misses the attribute's name
error_message_misnamed(message) ==
    /\ reported < MaxReports
    /\ out' = out \o message \o <<"\n">>
    /\ ret' = Return(None, message \o <<"\n">>)
    /\ reported' = reported + 1
    /\ last' = "error_message"
    /\ UNCHANGED <<progvars, calls, lexvars, printed, written>>

\* error_message(self, message): print(message); self.have_errors = True
error_message(message) ==
    /\ reported < MaxReports
    /\ out' = out \o message \o <<"\n">>
    /\ have_errors' = TRUE
    /\ ret' = Return(None, message \o <<"\n">>)
    /\ reported' = reported + 1
    /\ last' = "error_message"
    /\ UNCHANGED <<source, model, calls, lexvars, printed, written>>

ProgNext ==
    \/ \E e \in TestExprs : Build(e)
    \/ \E message \in Messages : error_message(message)
    \/ LexNext
    \/ interpret_program
    \/ to_source

\* Program(source) for the empty source and the sources of one character
ProgInit == \E text \in {t \in Sources : Len(t) <= 1} : NewProgram(text)

ProgSpec == ProgInit /\ [][ProgNext]_vars

(***************************************************************************)
(* The PrintStatement branch of interpret_node on its own, for an operand  *)
(* whose evaluation gave the pair (valuetype, value).                      *)
(***************************************************************************)
Tag(chars, v) == tuple(str(chars), v)

TaggedValues ==
    {Tag(<<"i", "n", "t">>, str(<<"2">>)), Tag(<<"i", "n", "t">>, int(14)),
     Tag(<<"i", "n", "t">>, int(0 - 4)), Tag(<<"f", "l", "o", "a", "t">>, str(<<"3", ".", "0">>)),
     Tag(<<"b", "o", "o", "l">>, bool(TRUE)), Tag(<<"b", "o", "o", "l">>, bool(FALSE)),
     Tag(<<"b", "o", "o", "l">>, str(<<"t", "r", "u", "e">>)),
     Tag(<<"b", "o", "o", "l">>, str(<<"f", "a", "l", "s", "e">>)),
     Tag(<<"i", "n", "t">>, int(0)), Tag(<<"f", "l", "o", "a", "t">>, str(<<"2", ".", "5">>)),
     Tag(<<"c", "h", "a", "r">>, str(<<"a">>)), Tag(<<"c", "h", "a", "r">>, str(<<"\n">>))}

print_statement(tv) ==
    /\ calls < MaxCalls
    /\ LET o == PrintOutput(tv.items[1], tv.items[2])
       IN  /\ out' = out \o o
           /\ ret' = Return(None, o)
    /\ printed' = tv
    /\ last' = "print"
    /\ calls' = calls + 1
    /\ UNCHANGED <<progvars, lexvars, written, reported>>

PrintNext == \E tv \in TaggedValues : print_statement(tv)

PrintSpec == Init /\ [][PrintNext]_vars

(***************************************************************************)
(* What the claims speak of.                                               *)
(***************************************************************************)
TInt == str(<<"i", "n", "t">>)

TBool == str(<<"b", "o", "o", "l">>)

TChar == str(<<"c", "h", "a", "r">>)

WordTrue == <<"t", "r", "u", "e">>

WordFalse == <<"f", "a", "l", "s", "e">>

DigitValue(c) == CHOOSE d \in 0..9 : DigitChar[d + 1] = c

RECURSIVE Denote(_)
\* The number a decimal literal text denotes
Denote(chars) ==
    IF chars = <<>> THEN 0
    ELSE 10 * Denote(SubSeq(chars, 1, Len(chars) - 1)) + DigitValue(chars[Len(chars)])

\* The symbol of a node's operator, given as an Op node or as a str
OpSymbol(op) ==
    IF op.class = "Op" THEN op.symbol.chars ELSE IF op.class = "str" THEN op.chars ELSE <<>>

RECURSIVE IsArith(_)
\* An integer literal, or +, -, *, / applied to such expressions
IsArith(node) ==
    \/ node.class = "Integer"
    \/ /\ node.class = "BinOp"
       /\ OpSymbol(node.op) \in {<<"+">>, <<"-">>, <<"*">>, <<"/">>}
       /\ IsArith(node.left)
       /\ IsArith(node.right)

RECURSIVE MathValue(_)
\* The number an arithmetic expression over integer literals denotes
MathValue(node) ==
    IF node.class = "Integer" THEN Denote(node.value.chars)
    ELSE LET a == MathValue(node.left)
             b == MathValue(node.right)
         IN  CASE OpSymbol(node.op) = <<"+">> -> a + b
               [] OpSymbol(node.op) = <<"-">> -> a - b
               [] OpSymbol(node.op) = <<"*">> -> a * b
               [] OTHER -> a \div b

IsPrefix(p, t) == Len(p) <= Len(t) /\ SubSeq(t, 1, Len(p)) = p

\* C1: interpreting a BinOp of +, -, *, / over integer literals returns the
\* pair ('int', v) with v the number the arithmetic gives (2 + 3 * 4 gives
\* ('int', 14)), and printing such an expression writes that number.
C1_claim ==
    /\ (last = "interpret_program" /\ model.class = "BinOp" /\ IsArith(model))
          => (ret.exc = "none" /\ ret.val = tuple(TInt, int(MathValue(model))))
    /\ (last = "interpret_program" /\ model.class = "PrintStatement"
            /\ model.value.class = "BinOp" /\ IsArith(model.value))
          => (ret.exc = "none" /\ ret.out = IntChars(MathValue(model.value)) \o <<"\n">>)

\* The constructor calls for a binary expression over an int and a float literal
MixedCall(e) ==
    /\ "call" \in DOMAIN e
    /\ e.call = "BinOp"
    /\ "call" \in DOMAIN e.args[2]
    /\ "call" \in DOMAIN e.args[3]
    /\ {e.args[2].call, e.args[3].call} = {"Integer", "Float"}
    /\ \A i \in {2, 3} : Len(e.args[i].args) = 1

\* C2: a binary expression over an int literal and a float literal (2 + 3.0,
\* and print 2 + 3.0) is built and its interpretation ends in the RuntimeError
\* "Type error in binary operator", with nothing printed.
C2_claim ==
    LET e == IF "call" \in DOMAIN written /\ written.call = "PrintStatement"
             THEN written.args[1] ELSE written
    IN  MixedCall(e) =>
          /\ model # None
          /\ last = "interpret_program" =>
                /\ ret.exc = "RuntimeError"
                /\ ret.msg = "Type error in binary operator"
                /\ ret.out = <<>>

\* C3: true || (1/0 == 0) is interpreted without an error and gives the bool
\* true, and false && (1/0 == 0) gives the bool false: the right operand is
\* not evaluated.
C3_claim ==
    /\ (last = "interpret_program" /\ written = lor_expr)
          => (ret.exc = "none" /\ ret.val \in {tuple(TBool, bool(TRUE)), tuple(TBool, str(WordTrue))})
    /\ (last = "interpret_program" /\ written = land_expr)
          => (ret.exc = "none" /\ ret.val \in {tuple(TBool, bool(FALSE)), tuple(TBool, str(WordFalse))})

\* C4: interpreting PrintStatement(Bool('true')) prints the word true and
\* interpreting PrintStatement(Bool('false')) prints the word false.
C4_claim ==
    /\ (last = "interpret_program" /\ written = P(true))
          => (ret.exc = "none" /\ IsPrefix(WordTrue, ret.out))
    /\ (last = "interpret_program" /\ written = P(false))
          => (ret.exc = "none" /\ IsPrefix(WordFalse, ret.out))

\* Whether text is what a print of the pair tv renders: the word true or false
\* for a bool, str(value) otherwise
IsRendering(tv, text) ==
    IF tv.items[1] = TBool THEN text \in {WordTrue, WordFalse} ELSE text = PyStr(tv.items[2])

\* The step appended one rendering of tv and then one newline to the output
AppendsLine(tv) ==
    LET w == SubSeq(out', Len(out) + 1, Len(out'))
    IN  /\ IsPrefix(out, out')
        /\ Len(w) >= 1
        /\ w[Len(w)] = "\n"
        /\ IsRendering(tv, SubSeq(w, 1, Len(w) - 1))

\* The step appended one rendering of tv and nothing else to the output
AppendsRaw(tv) ==
    /\ IsPrefix(out, out')
    /\ IsRendering(tv, SubSeq(out', Len(out) + 1, Len(out')))

OneEOF(toks) ==
    /\ Len(toks) >= 1
    /\ toks[Len(toks)].type = "EOF"
    /\ \A i \in 1..(Len(toks) - 1) : toks[i].type # "EOF"

\* C6: for every source text tokenize, once started, runs to its end, and the
\* tokens it has yielded by then end with an EOF token, the only one.
C6_terminates_one_eof ==
    /\ [](tpc = "done" => OneEOF(tokens))
    /\ (tpc = "loop") ~> (tpc = "done")

\* tokenize has run to its end on a text of several characters
C6_witness ==
    /\ tpc = "done"
    /\ Len(source) >= 2
    /\ n = Len(source)
    /\ Len(tokens) = 1

\* The characters of the documented tokens that occur in the inputs: digits
\* and the one-character operators and symbols
Digits == {DigitChar[i] : i \in 1..10}

SymbolType(c) ==
    CASE c = "+" -> "PLUS"
      [] c = "-" -> "MINUS"
      [] c = "*" -> "TIMES"
      [] c = "/" -> "DIVIDE"
      [] c = ";" -> "SEMI"
      [] c = "(" -> "LPAREN"
      [] c = ")" -> "RPAREN"
      [] c = "{" -> "LBRACE"
      [] c = "}" -> "RBRACE"
      [] c = "," -> "COMMA"
      [] OTHER -> ""

IsLegal(c) == c \in Digits \/ SymbolType(c) # ""

RECURSIVE DocTokens(_, _)
\* The (type, value) pairs of the documented tokens of text from position i on
DocTokens(text, i) ==
    IF i > Len(text) THEN <<>>
    ELSE IF text[i] \in Digits
    THEN LET j == CHOOSE j \in i..Len(text) :
                      /\ \A k \in i..j : text[k] \in Digits
                      /\ (j = Len(text) \/ text[j + 1] \notin Digits)
         IN  <<<<"INTEGER", SubSeq(text, i, j)>>>> \o DocTokens(text, j + 1)
    ELSE IF IsLegal(text[i])
    THEN <<<<SymbolType(text[i]), <<text[i]>>>>>> \o DocTokens(text, i + 1)
    ELSE DocTokens(text, i + 1)

RECURSIVE IllegalReports(_)
\* The report lines for the illegal characters of a one-line text
IllegalReports(text) ==
    IF text = <<>> THEN <<>>
    ELSE (IF IsLegal(Head(text)) THEN <<>> ELSE IllegalLine(1, Head(text)))
            \o IllegalReports(Tail(text))

\* C7: when tokenize has run to its end it has reported the illegal characters
\* and only them, and has yielded every well-formed token of the text, those
\* after an illegal character too, and then EOF.
C7_claim ==
    tpc = "done" =>
        /\ out = IllegalReports(source)
        /\ [i \in 1..Len(tokens) |-> <<tokens[i].type, tokens[i].value>>]
              = DocTokens(source, 1) \o <<<<"EOF", <<"E", "O", "F">>>>>>

\* C8: after tokenize has scanned the source, have_errors is true exactly when
\* the source holds an illegal character.
C8_claim ==
    tpc = "done" => (have_errors <=> \E i \in 1..Len(source) : ~IsLegal(source[i]))

RECURSIVE IsAst(_)
\* A tree of the node kinds of the model, operators given as Op nodes
IsAst(node) ==
    CASE node.class \in {"Integer", "Float", "Bool"} -> TRUE
      [] node.class = "BinOp" -> node.op.class = "Op" /\ IsAst(node.left) /\ IsAst(node.right)
      [] node.class = "UnaryOp" -> node.op.class = "Op" /\ IsAst(node.operand)
      [] node.class = "PrintStatement" -> IsAst(node.value)
      [] node.class = "list" -> \A i \in 1..Len(node.items) : IsAst(node.items[i])
      [] OTHER -> FALSE

\* C9: for every model built from the node kinds, to_source returns a text and
\* parsing that text gives back a model equal to the original.
C9_claim ==
    (last = "round_trip" /\ IsAst(model)) => (ret.exc = "none" /\ ret.val = model)

\* Whether text is a sequence of statements `<integer> ;`
IsStatements(text) ==
    LET t == DocTokens(text, 1)
    IN  /\ \A i \in 1..Len(text) : IsLegal(text[i])
        /\ Len(t) % 2 = 0
        /\ \A i \in 1..Len(t) : t[i][1] = IF i % 2 = 1 THEN "INTEGER" ELSE "SEMI"

\* C10: parse_program on a source of zero or more statements (the empty source
\* is tokens EOF alone) succeeds and leaves a model that is the sequence of
\* those statements, empty for the empty source.
C10_claim ==
    (last = "parse_program" /\ IsStatements(source)) =>
        /\ ret.exc = "none"
        /\ model.class = "list"
        /\ Len(model.items) = Len(DocTokens(source, 1)) \div 2

\* C11: break ends the enclosing while and continue goes back to its condition,
\* so interpreting program6 completes having printed 2, and only 2.
C11_claim ==
    (last = "interpret_program" /\ written = program6) =>
        (ret.exc = "none" /\ ret.out = <<"2", "\n">>)

\* C12: a run of interpret_program, whether it returns or raises, leaves the
\* model as it was: every field of every node is the same after as before.
C12_model_unchanged == [][interpret_program => model' = model]_vars

\* A run that printed its operand, then raised, on the model as it was built
C12_witness ==
    /\ last = "interpret_program"
    /\ ret.exc = "TypeError"
    /\ ret.out = <<"2", "\n">>
    /\ model.class = "BinOp"
    /\ model = Eval(written).val

\* C13: have_errors is False in a new Program, error_message sets it and
\* leaves source and model alone, and no step of any operation takes it back
\* to False; so have_errors holds exactly when error_message has been called.
C13_flag_accumulates ==
    /\ [](have_errors <=> reported > 0)
    /\ [][have_errors => have_errors']_vars
    /\ [][(\E message \in Messages : error_message(message)) =>
            (source' = source /\ model' = model)]_vars

\* Two reports on a program with a source and a model, after the lexer and
\* the interpreter have run
C13_witness ==
    /\ have_errors
    /\ reported = 2
    /\ source # <<>>
    /\ model # None
    /\ tpc = "done"
    /\ calls > 0

\* A node interpret_node has no branch for
Unexecutable(node) == node.class \notin {"Integer", "Float", "BinOp", "PrintStatement"}

\* A BinOp whose operands evaluate to pairs of one tag, and whose tag is not
\* numeric or whose operator is neither of the two the numeric branch compares
\* node.op with
UnsupportedBinOp(node) ==
    /\ node.class = "BinOp"
    /\ LET l == interpret_node(node.left)
           r == interpret_node(node.right)
       IN  /\ l.exc = "none" /\ Unpacks(l.val)
           /\ r.exc = "none" /\ Unpacks(r.val)
           /\ l.val.items[1] = r.val.items[1]
           /\ \/ l.val.items[1] \notin {TInt, str(<<"f", "l", "o", "a", "t">>)}
              \/ node.op \notin {str(<<"+">>), str(<<"-">>)}

\* C14: interpret_node on a node it has no branch for (a Bool, a UnaryOp, a
\* list, None), or on a BinOp it cannot apply, raises RuntimeError having
\* printed nothing.
C14_claim ==
    (last = "interpret_program" /\ (Unexecutable(model) \/ UnsupportedBinOp(model))) =>
        (ret.exc = "RuntimeError" /\ ret.out = <<>>)

====
